---- MODULE Spec2Model ----
(***************************************************************************)
(* ts-typed-events: BaseEvent (on / once / off / offAll) and the emitter   *)
(* built by createEmitterWithBaseEvent (src/src/index.ts).                 *)
(*                                                                         *)
(* JavaScript arrays are objects: `event.listeners` and the `listeners`    *)
(* local of a running emit() are references.  The model keeps a heap of    *)
(* arrays so that push / length = 0 (in place) and filter (fresh array)    *)
(* act on the same objects as in the code.  emit() runs user callbacks,    *)
(* which may call any operation of the event, emit included, or throw;     *)
(* a running emit is a frame on `stack`.  createEmitter() pairs a          *)
(* SealedEvent with its emitter; createEventEmitter() returns an Event,    *)
(* whose `emit` property is an emitter of its own, with a second emitter.  *)
(***************************************************************************)
EXTENDS Integers, Sequences, FiniteSets, TLC

\* ---- bounds of the model ------------------------------------------------
MaxSubs == 2
MaxEmits == 2
MaxDepth == 2
MaxOffs == 2
NumCallbacks == 2
NumValues == 2
MaxGroups == 3

Events == {1}        \* the event of one factory call
AllEvents == {1, 2}  \* the events of two factory calls
Values == 1..NumValues
Undefined == 0        \* the value of a parameter no argument was passed for
HeapSize == Cardinality(AllEvents) + MaxDepth + 1

\* ---- references ---------------------------------------------------------
Fn(n) == <<"fn", n>>
Resolve(p) == <<"resolve", p>>
PromiseRef(p) == <<"promise", p>>
NoPromise == <<"none", 0>>

UserCallbacks == {Fn(n) : n \in 1..NumCallbacks}
OffArgs == UserCallbacks \cup {PromiseRef(p) : p \in 1..MaxSubs}

VARIABLES
  groups,     \* group objects: entries in key order, frozen or not
  classOf,    \* event -> the class of the event object
  member,     \* event -> the emitter in its `emit` property, 0 when it has none
  emitters,   \* emitter -> the event it closed over, its `event` and `emit` properties
  listeners,  \* event -> reference of the array in its `listeners` field
  heap,       \* array reference -> the array (sequence of Listener objects)
  stack,      \* running emit() calls, innermost last
  resolved,   \* promise -> value it was resolved with (domain: resolved ones)
  thenRan,    \* promises whose then-continuation has run
  subs,       \* history: one record per Listener object ever created
  emits,      \* history: one record per emit() call ever made
  lastOp,     \* history: the call (on/once/off/offAll/emit) that has just returned or thrown, if any
  cleared,    \* history: event -> offAll() called and no on/once since
  offs        \* history: number of off / offAll calls made so far

vars == <<groups, classOf, member, emitters, listeners, heap, stack, resolved, thenRan, subs, emits, lastOp, cleared, offs>>

\* ---- helpers ------------------------------------------------------------
Ids(arr) == [i \in 1..Len(arr) |-> arr[i].id]
IdSet(arr) == {arr[i].id : i \in 1..Len(arr)}

Referenced(ls, st) == {ls[e] : e \in DOMAIN ls} \cup {st[i].arr : i \in 1..Len(st)}

\* a fresh array object: the lowest reference nothing points to
Alloc(ls, st) == CHOOSE r \in 1..HeapSize :
                   /\ r \notin Referenced(ls, st)
                   /\ \A q \in 1..HeapSize : q \notin Referenced(ls, st) => r <= q

\* arrays nothing points to are garbage
Collect(h, ls, st) == [r \in 1..HeapSize |-> IF r \in Referenced(ls, st) THEN h[r] ELSE <<>>]

Registry(e) == heap[listeners[e]]

Depth == Len(stack)
Top == stack[Len(stack)]

\* user code runs at top level or inside a callback of the innermost emit
CanCall == IF stack = <<>> THEN TRUE ELSE Top.pc = "cb"

NoOp == [op |-> "none", ev |-> 0, arg |-> NoPromise, ret |-> 0, pre |-> <<>>, depth |-> 0]

\* history: the running emits of event e saw one of its callbacks change the registry
MarkDirty(e) == [k \in 1..Len(emits) |->
                   IF emits[k].ev = e /\ emits[k].status = "running"
                   THEN [emits[k] EXCEPT !.dirty = TRUE] ELSE emits[k]]

\* history: the subscriptions of event e that a removal call names: off(x) names
\* those created with callback x or given promise x, offAll() names all
Named(e, x, all) == {s \in 1..Len(subs) :
                      subs[s].ev = e /\ (all \/ subs[s].cb = x \/ subs[s].promise = x)}

\* history: a removal call was made for the subscriptions Named(e, x, all);
\* offTop / offCb are set for those that were registered when it was made
MarkOff(e, x, all, pre) ==
  [s \in 1..Len(subs) |->
     IF s \notin Named(e, x, all) THEN subs[s]
     ELSE IF s \notin IdSet(pre) THEN [subs[s] EXCEPT !.offCalls = @ + 1]
     ELSE IF Depth = 0
          THEN [subs[s] EXCEPT !.offCalls = @ + 1, !.offTop = TRUE, !.offAt = Len(emits)]
          ELSE [subs[s] EXCEPT !.offCalls = @ + 1, !.offCb = TRUE]]

\* history: the running emits of event e also get the call in their logs, with
\* the number of Listeners their loop had fetched when it was made; logs are
\* kept for events with two emitters, whose dispatches are compared
Logged(ems, e, op, arg) ==
  [k \in 1..Len(ems) |->
     IF ems[k].ev = e /\ ems[k].status = "running" /\ member[e] # 0
     THEN LET f == CHOOSE i \in 1..Len(stack) : stack[i].eid = k
          IN [ems[k] EXCEPT !.log = Append(@, <<stack[f].idx, op, arg>>)]
     ELSE ems[k]]

NewSub(e, isOnce, cb, p) ==
  [ev |-> e, once |-> isOnce, cb |-> cb, promise |-> p,
   regEmit |-> Len(emits), regDepth |-> Depth, by |-> <<>>,
   offCalls |-> 0, offTop |-> FALSE, offAt |-> 0, offCb |-> FALSE]

\* fault model: func.event is not the event the closure reads
CreateEmitterOtherEvent(e, id) ==
  [bound |-> e, event |-> CHOOSE o \in AllEvents : o # e, emit |-> id, code |-> "closure"]

\* createEmitterWithBaseEvent(event): the function emit, whose body reads
\* publicListenersEvent (`bound`), with func.event = event and func.emit = emit
CreateEmitterWithBaseEvent(e, id) ==
  [bound |-> e, event |-> e, emit |-> id, code |-> "closure"]

\* fault model: SealedEvent keeps the emit field of Event
HasEmitMemberAlways(c) == TRUE

\* class SealedEvent declares no member beyond those of BaseEvent
HasEmitMember(c) == c = "Event"

\* the emitter the factory returned for event e (not the one in event.emit)
FactoryEmitter(e) == CHOOSE em \in 1..Len(emitters) :
                       emitters[em].event = e /\ em # member[e]

\* fault model: one listeners array for all events
SharedArray(e) == 1

\* `protected listeners = []`: every event object gets an array of its own
OwnArray(e) == e

\* everything but the emitters of the events evs, as construction leaves it,
\* with the group objects gs
InitRestWith(evs, gs) ==
  /\ groups = gs
  /\ listeners = [e \in evs |-> OwnArray(e)]
  /\ heap = [r \in 1..HeapSize |-> <<>>]
  /\ stack = <<>>
  /\ resolved = <<>>
  /\ thenRan = {}
  /\ subs = <<>>
  /\ emits = <<>>
  /\ lastOp = NoOp
  /\ cleared = [e \in evs |-> FALSE]
  /\ offs = 0

InitRestOf(evs) == InitRestWith(evs, <<>>)

InitRest == InitRestOf(Events)

\* fault model: Event.emit is the emit method of the v2 class
MemberEmitterV2(e) == [bound |-> e, event |-> e, emit |-> 1, code |-> "method"]

\* createEventEmitter(): `new Event()` builds the emitter in its `emit` property
\* (index.ts:243)
MemberEmitter(e) == CreateEmitterWithBaseEvent(e, 1)

\* the emitters `new cls()` builds for the event
Constructed(cls) == IF HasEmitMember(cls) THEN <<MemberEmitter(1)>> ELSE <<>>

\* createEmitterWithBaseEvent(new cls()): the event, then the emitter returned
InitOf(cls) ==
  /\ classOf = [e \in Events |-> cls]
  /\ member = [e \in Events |-> Len(Constructed(cls))]
  /\ emitters = Append(Constructed(cls),
                       CreateEmitterWithBaseEvent(1, Len(Constructed(cls)) + 1))
  /\ InitRest

\* createEmitter(): a SealedEvent and the emitter bound to it
Init == InitOf("SealedEvent")

\* ---- BaseEvent.on -------------------------------------------------------
\* fault model: unshift in place of push
PushFront(arr, l) == <<l>> \o arr

\* this.listeners.push(listener)
Push(arr, l) == Append(arr, l)

On(e, c) ==
  /\ CanCall
  /\ Len(subs) < MaxSubs
  /\ LET id == Len(subs) + 1
         l == [id |-> id, once |-> FALSE, callback |-> c, promise |-> NoPromise]
         post == Push(Registry(e), l)
     IN /\ heap' = [heap EXCEPT ![listeners[e]] = post]
        /\ subs' = Append(subs, NewSub(e, FALSE, c, NoPromise))
        /\ lastOp' = [op |-> "on", ev |-> e, arg |-> c, ret |-> 0,
                      pre |-> Registry(e), depth |-> Depth]
  /\ emits' = Logged(MarkDirty(e), e, "on", c)
  /\ cleared' = [cleared EXCEPT ![e] = FALSE]
  /\ UNCHANGED <<groups, classOf, member, emitters, listeners, stack, resolved, thenRan, offs>>

\* ---- BaseEvent.once(callback) -------------------------------------------
OnceCallback(e, c) ==
  /\ CanCall
  /\ Len(subs) < MaxSubs
  /\ LET id == Len(subs) + 1
         l == [id |-> id, once |-> TRUE, callback |-> c, promise |-> NoPromise]
         post == Push(Registry(e), l)
     IN /\ heap' = [heap EXCEPT ![listeners[e]] = post]
        /\ subs' = Append(subs, NewSub(e, TRUE, c, NoPromise))
        /\ lastOp' = [op |-> "once", ev |-> e, arg |-> c, ret |-> 0,
                      pre |-> Registry(e), depth |-> Depth]
  /\ emits' = Logged(MarkDirty(e), e, "once", c)
  /\ cleared' = [cleared EXCEPT ![e] = FALSE]
  /\ UNCHANGED <<groups, classOf, member, emitters, listeners, stack, resolved, thenRan, offs>>

\* ---- BaseEvent.once() ---------------------------------------------------
\* fault model: the promise goes to the first Listener instead of the last
AttachPromiseFirst(arr, p) == [arr EXCEPT ![1].promise = p]

\* fault model: the promise is not attached to any Listener
AttachPromiseNone(arr, p) == arr

\* the promise is attached to whatever Listener is last in this.listeners
AttachPromise(arr, p) == [arr EXCEPT ![Len(arr)].promise = p]

\* fault model: the executor calls resolve at once
ExecutorResolves(p, res) == (p :> [value |-> Undefined, by |-> 0]) @@ res

\* new Promise((resolve) => { this.once(resolve) }): the executor registers
\* resolve and does not call it, the promise stays pending
Executor(p, res) == res

OncePromise(e) ==
  /\ CanCall
  /\ Len(subs) < MaxSubs
  /\ LET id == Len(subs) + 1
         l == [id |-> id, once |-> TRUE, callback |-> Resolve(id), promise |-> NoPromise]
         post == AttachPromise(Push(Registry(e), l), PromiseRef(id))
     IN /\ heap' = [heap EXCEPT ![listeners[e]] = post]
        /\ subs' = Append(subs, NewSub(e, TRUE, Resolve(id), PromiseRef(id)))
        /\ lastOp' = [op |-> "oncePromise", ev |-> e, arg |-> PromiseRef(id), ret |-> 0,
                      pre |-> Registry(e), depth |-> Depth]
  /\ emits' = Logged(MarkDirty(e), e, "oncePromise", NoPromise)
  /\ cleared' = [cleared EXCEPT ![e] = FALSE]
  /\ resolved' = Executor(Len(subs) + 1, resolved)
  /\ UNCHANGED <<groups, classOf, member, emitters, listeners, stack, thenRan, offs>>

\* ---- BaseEvent.off ------------------------------------------------------
\* fault model: || in place of && in the filter of off
OffKeepsEither(x, l) == x # l.callback \/ (l.promise = NoPromise \/ x # l.promise)

\* fault model: the filter of off compares callbacks only
OffKeepsCallbackOnly(x, l) == x # l.callback

\* listener !== l.callback && (!l.promise || listener !== l.promise)
OffKeeps(x, l) == x # l.callback /\ (l.promise = NoPromise \/ x # l.promise)

\* user code can pass a callback, or a promise that some once() has returned
Held(x) == x[1] = "promise" => x[2] <= Len(subs) /\ subs[x[2]].promise = x

\* fault model: off removes the first matching Listener only
OffFilterFirst(arr, x) ==
  LET hits == {i \in 1..Len(arr) : ~OffKeeps(x, arr[i])} IN
    IF hits = {} THEN arr
    ELSE LET m == CHOOSE i \in hits : \A j \in hits : i <= j
         IN SubSeq(arr, 1, m - 1) \o SubSeq(arr, m + 1, Len(arr))

\* this.listeners.filter(...)
OffFilter(arr, x) == LET Keep(l) == OffKeeps(x, l) IN SelectSeq(arr, Keep)

Off(e, x) ==
  /\ CanCall
  /\ offs < MaxOffs
  /\ Held(x)
  /\ LET pre == Registry(e)
         post == OffFilter(pre, x)
         r == Alloc(listeners, stack)
         ls == [listeners EXCEPT ![e] = r]
     IN /\ listeners' = ls
        /\ heap' = Collect([heap EXCEPT ![r] = post], ls, stack)
        /\ subs' = MarkOff(e, x, FALSE, pre)
        /\ lastOp' = [op |-> "off", ev |-> e, arg |-> x,
                      ret |-> IF Len(post) # Len(pre) THEN 1 ELSE 0,
                      pre |-> pre, depth |-> Depth]
  /\ emits' = Logged(MarkDirty(e), e, "off", x)
  /\ offs' = offs + 1
  /\ UNCHANGED <<groups, classOf, member, emitters, stack, resolved, thenRan, cleared>>

\* ---- BaseEvent.offAll ---------------------------------------------------
OffAll(e) ==
  /\ CanCall
  /\ offs < MaxOffs
  /\ LET pre == Registry(e)
     IN /\ heap' = [heap EXCEPT ![listeners[e]] = <<>>]
        /\ subs' = MarkOff(e, NoPromise, TRUE, pre)
        /\ lastOp' = [op |-> "offAll", ev |-> e, arg |-> NoPromise,
                      ret |-> Len(pre), pre |-> pre, depth |-> Depth]
  /\ emits' = Logged(MarkDirty(e), e, "offAll", NoPromise)
  /\ cleared' = [cleared EXCEPT ![e] = TRUE]
  /\ offs' = offs + 1
  /\ UNCHANGED <<groups, classOf, member, emitters, listeners, stack, resolved, thenRan>>

\* ---- emit: entry --------------------------------------------------------
\* const { listeners } = publicListenersEvent; hadListeners = length > 0
HadListeners(arr) == Len(arr) > 0

\* fault model: a dispatch started by a callback goes on where the running
\* one stands
StartIndexShared == IF stack = <<>> THEN 0 ELSE Top.idx

\* for (const listener of listeners): every call of emit makes an iterator of
\* its own, which starts at the first element
StartIndex == 0

\* a call of emitter em with value v
EmitCall(em, v) ==
  /\ CanCall
  /\ Len(emits) < MaxEmits
  /\ Depth < MaxDepth
  /\ lastOp' = NoOp
  /\ LET e == emitters[em].bound IN
       /\ stack' = Append(stack, [ev |-> e, arr |-> listeners[e], idx |-> StartIndex, value |-> v,
                                  had |-> HadListeners(Registry(e)), pc |-> "loop",
                                  eid |-> Len(emits) + 1, code |-> emitters[em].code])
       /\ emits' = Append(Logged(emits, e, "emit", NoPromise),
                          [ev |-> e, value |-> v, depth |-> Depth,
                           start |-> Ids(Registry(e)), calls |-> <<>>,
                           status |-> "running", ret |-> FALSE, dirty |-> FALSE,
                           afterClear |-> cleared[e], thrownAt |-> 0,
                           em |-> em, log |-> <<>>, post |-> <<>>])
  /\ UNCHANGED <<groups, classOf, member, emitters, listeners, heap, resolved, thenRan, subs, cleared, offs>>

\* emitter(v), the emitter being the one the factory returned for event e
EmitStart(e, v) ==
  /\ FactoryEmitter(e) \in DOMAIN emitters
  /\ EmitCall(FactoryEmitter(e), v)

\* event.emit(v), for an event object that has an `emit` property
MemberEmitStart(e, v) ==
  /\ member[e] # 0
  /\ EmitCall(member[e], v)

\* emitter(), no argument: the parameter `emitting` is undefined
EmitStartNoArg(e) ==
  /\ FactoryEmitter(e) \in DOMAIN emitters
  /\ EmitCall(FactoryEmitter(e), Undefined)

\* fault model: the loop walks the array from its end
NextListenerReversed(arr, idx) == arr[Len(arr) - idx]

\* the element the array iterator yields on its next turn
NextListener(arr, idx) == arr[idx + 1]

\* fault model: the callback gets the position of its Listener
EmittingIndex(f) == f.idx

\* listener.callback(emitting as T)
Emitting(f) == f.value

\* ---- emit: one turn of `for (const listener of listeners)` --------------
\* the array iterator reads the live length of the array it was created on
EmitInvoke ==
  /\ stack # <<>>
  /\ Top.pc = "loop"
  /\ Top.idx < Len(heap[Top.arr])
  /\ LET f == Top
         l == NextListener(heap[f.arr], f.idx)
         isResolver == l.callback[1] = "resolve"
     IN /\ stack' = [stack EXCEPT ![Len(stack)] =
                       [f EXCEPT !.idx = f.idx + 1,
                                 !.pc = IF isResolver THEN "loop" ELSE "cb"]]
        /\ resolved' = IF isResolver /\ l.callback[2] \notin DOMAIN resolved
                       THEN (l.callback[2] :> [value |-> Emitting(f), by |-> f.eid]) @@ resolved
                       ELSE resolved
        /\ subs' = [subs EXCEPT ![l.id].by = Append(@, f.eid)]
        /\ emits' = [emits EXCEPT ![f.eid].calls = Append(@, <<l.id, Emitting(f)>>)]
  /\ lastOp' = NoOp
  /\ UNCHANGED <<groups, classOf, member, emitters, listeners, heap, thenRan, cleared, offs>>

\* ---- callback returns / throws ------------------------------------------
CallbackReturn ==
  /\ stack # <<>>
  /\ Top.pc = "cb"
  /\ stack' = [stack EXCEPT ![Len(stack)].pc = "loop"]
  /\ lastOp' = NoOp
  /\ UNCHANGED <<groups, classOf, member, emitters, listeners, heap, resolved, thenRan, subs, emits, cleared, offs>>

\* fault model: emit catches the exception and goes on with the loop
UnwindCaught(st) == [st EXCEPT ![Len(st)].pc = "loop"]

\* an exception of listener.callback ends the activation of emit
Unwind(st) == SubSeq(st, 1, Len(st) - 1)

\* the exception leaves emit() before the filter; the caller of emit gets it
CallbackThrow ==
  /\ stack # <<>>
  /\ Top.pc = "cb"
  /\ stack' = Unwind(stack)
  /\ heap' = Collect(heap, listeners, stack')
  /\ emits' = [emits EXCEPT ![Top.eid].status = "threw",
                            ![Top.eid].thrownAt = Len(emits[Top.eid].calls)]
  /\ lastOp' = [op |-> "throw", ev |-> Top.ev, arg |-> NoPromise, ret |-> Top.eid,
                pre |-> heap[Top.arr], depth |-> Depth - 1]
  /\ UNCHANGED <<groups, classOf, member, emitters, listeners, resolved, thenRan, subs, cleared, offs>>

\* fault model: the result is read from the array after the loop
ReturnedAfterLoop(f) == Len(heap[f.arr]) > 0

\* return hadListeners
Returned(f) == f.had

\* the array the once filter reads: the emitter of createEmitterWithBaseEvent
\* filters the array it took before the loop (index.ts:195), the emit method of
\* the v2 Event class filters this.listeners as it is then (event.ts:144)
FilterSource(f) == IF f.code = "closure" THEN f.arr ELSE listeners[f.ev]

\* ---- emit: after the loop -----------------------------------------------
\* fault model: the filter keeps the once Listeners and drops the others
OnceFilterInverted(arr) == LET Keep(l) == l.once IN SelectSeq(arr, Keep)

\* fault model: emit assigns the array unfiltered
OnceFilterNone(arr) == arr

\* publicListenersEvent.listeners = listeners.filter(({ once }) => !once)
OnceFilter(arr) == LET Keep(l) == ~l.once IN SelectSeq(arr, Keep)

EmitFinish ==
  /\ stack # <<>>
  /\ Top.pc = "loop"
  /\ Top.idx >= Len(heap[Top.arr])
  /\ LET f == Top
         r == Alloc(listeners, stack)
         ls == [listeners EXCEPT ![f.ev] = r]
         st == SubSeq(stack, 1, Len(stack) - 1)
     IN /\ listeners' = ls
        /\ stack' = st
        /\ heap' = Collect([heap EXCEPT ![r] = OnceFilter(heap[FilterSource(f)])], ls, st)
        /\ emits' = [emits EXCEPT ![f.eid].status = "returned", ![f.eid].ret = Returned(f),
                                  ![f.eid].post = Ids(OnceFilter(heap[FilterSource(f)]))]
        /\ lastOp' = [op |-> "emit", ev |-> f.ev, arg |-> NoPromise, ret |-> f.eid,
                      pre |-> heap[f.arr], depth |-> Depth - 1]
  /\ UNCHANGED <<groups, classOf, member, emitters, resolved, thenRan, subs, cleared, offs>>

\* ---- the continuation of a resolved promise (a microtask) ---------------
PromiseThen(p) ==
  /\ stack = <<>>
  /\ p \in DOMAIN resolved
  /\ p \notin thenRan
  /\ thenRan' = thenRan \cup {p}
  /\ lastOp' = NoOp
  /\ UNCHANGED <<groups, classOf, member, emitters, listeners, heap, stack, resolved, subs, emits, cleared, offs>>

Next ==
  \/ \E e \in Events, c \in UserCallbacks : On(e, c)
  \/ \E e \in Events, c \in UserCallbacks : OnceCallback(e, c)
  \/ \E e \in Events : OncePromise(e)
  \/ \E e \in Events, x \in OffArgs : Off(e, x)
  \/ \E e \in Events : OffAll(e)
  \/ \E e \in Events, v \in Values : EmitStart(e, v)
  \/ EmitInvoke
  \/ CallbackReturn
  \/ CallbackThrow
  \/ EmitFinish
  \/ \E p \in 1..MaxSubs : PromiseThen(p)

Spec == Init /\ [][Next]_vars

\* createEventEmitter(): an Event, which has its own emitter in `emit`, and the
\* emitter the factory returns (index.ts:262)
InitSelf == InitOf("Event")

\* the event comes from either factory; user code registers callbacks that
\* return normally, and calls event.emit when the event has it
NextAny ==
  \/ \E e \in Events, c \in UserCallbacks : On(e, c)
  \/ \E e \in Events, c \in UserCallbacks : OnceCallback(e, c)
  \/ \E e \in Events, c \in UserCallbacks : Off(e, c)
  \/ \E e \in Events, v \in Values : EmitStart(e, v)
  \/ \E e \in Events, v \in Values : MemberEmitStart(e, v)
  \/ EmitInvoke
  \/ CallbackReturn
  \/ EmitFinish

SpecAny == (Init \/ InitSelf) /\ [][NextAny]_vars

\* ---- an event without payload (a signal) --------------------------------
\* user code subscribes with callbacks and with promises, and calls the
\* emitter with and without an argument
NextSignal ==
  \/ \E e \in Events, c \in UserCallbacks : On(e, c)
  \/ \E e \in Events, c \in UserCallbacks : OnceCallback(e, c)
  \/ \E e \in Events : OncePromise(e)
  \/ \E e \in Events : EmitStartNoArg(e)
  \/ \E e \in Events, v \in Values : EmitStart(e, v)
  \/ EmitInvoke
  \/ CallbackReturn
  \/ CallbackThrow
  \/ EmitFinish
  \/ \E p \in 1..MaxSubs : PromiseThen(p)

SpecSignal == Init /\ [][NextSignal]_vars

\* ---- the v2 Event class and the emitter of createEmitter (event.ts) ------
\* the v2 class has on / once / off / offAll as above and `emit` as a member
\* that reads this.listeners (event.ts:133-146)
V2Emit(e) == [bound |-> e, event |-> e, emit |-> 1, code |-> "method"]

\* one registry with both dispatch codes: the emit of the v2 class in
\* event.emit, and the closure of createEmitter(event), which is what
\* PublicEvent.emit holds (event.ts:294-319, 375-389)
InitV2 ==
  /\ classOf = [e \in Events |-> "EventV2"]
  /\ member = [e \in Events |-> 1]
  /\ emitters = <<V2Emit(1), CreateEmitterWithBaseEvent(1, 2)>>
  /\ InitRest

SpecV2 == InitV2 /\ [][NextAny]_vars

\* ---- two events, each from its own createEmitter() call -----------------
InitTwo ==
  /\ classOf = [e \in AllEvents |-> "SealedEvent"]
  /\ member = [e \in AllEvents |-> 0]
  /\ emitters = [em \in 1..Cardinality(AllEvents) |-> CreateEmitterWithBaseEvent(em, em)]
  /\ InitRestOf(AllEvents)

\* user code registers one callback, which returns normally, and emits one value
NextTwo ==
  \/ \E e \in AllEvents : On(e, Fn(1))
  \/ \E e \in AllEvents : OnceCallback(e, Fn(1))
  \/ \E e \in AllEvents : Off(e, Fn(1))
  \/ \E e \in AllEvents : OffAll(e)
  \/ \E e \in AllEvents : EmitStart(e, 1)
  \/ EmitInvoke
  \/ CallbackReturn
  \/ EmitFinish

SpecTwo == InitTwo /\ [][NextTwo]_vars

\* ---- groups of events (events.ts) -----------------------------------------
Names == {"a", "b"}

\* the object literals user code can write: up to two keys, in either order
Literals ==
  LET Entry == [name : Names, event : AllEvents] IN
    {<<>>} \cup {<<x>> : x \in Entry}
            \cup {p \in Entry \X Entry : p[1].name # p[2].name}

NamesOf(en) == {en[i].name : i \in 1..Len(en)}
Get(en, n) == en[CHOOSE i \in 1..Len(en) : en[i].name = n].event
EventsOf(en) == {en[i].event : i \in 1..Len(en)}

\* fault model: a key the object already has keeps its value
PutIfAbsent(en, x) == IF x.name \in NamesOf(en) THEN en ELSE Append(en, x)

\* obj[name] = event: an existing key keeps its place and gets the value
Put(en, x) ==
  IF x.name \in NamesOf(en)
  THEN [i \in 1..Len(en) |-> IF en[i].name = x.name THEN x ELSE en[i]]
  ELSE Append(en, x)

\* { ...into, ...src }: the own properties of src are put one by one
RECURSIVE Spread(_, _)
Spread(into, src) == IF src = <<>> THEN into ELSE Spread(Put(into, Head(src)), Tail(src))

Plain(en) == [entries |-> en, frozen |-> FALSE, of |-> <<>>]

\* events(group): Object.freeze(group), the same object
GroupEvents(g) ==
  /\ g \in DOMAIN groups
  /\ ~groups[g].frozen
  /\ groups' = [groups EXCEPT ![g].frozen = TRUE]
  /\ UNCHANGED <<classOf, member, emitters, listeners, heap, stack, resolved, thenRan,
                 subs, emits, lastOp, cleared, offs>>

\* user code sets a property of a group object; a frozen object rejects it
GroupWrite(g, x) ==
  /\ g \in DOMAIN groups
  /\ ~groups[g].frozen
  /\ Put(groups[g].entries, x) # groups[g].entries
  /\ groups' = [groups EXCEPT ![g].entries = Put(@, x)]
  /\ UNCHANGED <<classOf, member, emitters, listeners, heap, stack, resolved, thenRan,
                 subs, emits, lastOp, cleared, offs>>

\* events.concat(eventsA, eventsB): Object.freeze({ ...eventsA, ...eventsB });
\* `of` is history, the entries of the two arguments
EventsConcat(a, b) ==
  /\ a \in DOMAIN groups /\ b \in DOMAIN groups
  /\ Len(groups) < MaxGroups
  /\ groups' = Append(groups,
                      [entries |-> Spread(Spread(<<>>, groups[a].entries), groups[b].entries),
                       frozen |-> TRUE,
                       of |-> <<groups[a].entries, groups[b].entries>>])
  /\ UNCHANGED <<classOf, member, emitters, listeners, heap, stack, resolved, thenRan,
                 subs, emits, lastOp, cleared, offs>>

\* two object literals, then events(), property writes and events.concat
InitConcat ==
  /\ classOf = [e \in AllEvents |-> "SealedEvent"]
  /\ member = [e \in AllEvents |-> 0]
  /\ emitters = [em \in 1..Cardinality(AllEvents) |-> CreateEmitterWithBaseEvent(em, em)]
  /\ \E x, y \in Literals : InitRestWith(AllEvents, <<Plain(x), Plain(y)>>)

NextConcat ==
  \/ \E g \in 1..MaxGroups : GroupEvents(g)
  \/ \E g \in 1..MaxGroups, n \in Names, e \in AllEvents : GroupWrite(g, [name |-> n, event |-> e])
  \/ \E a, b \in 1..MaxGroups : EventsConcat(a, b)

SpecConcat == InitConcat /\ [][NextConcat]_vars

\* events.offAll(events): event.offAll() for every own key of the group
EventsOffAll(g) ==
  /\ CanCall
  /\ offs < MaxOffs
  /\ g \in DOMAIN groups
  /\ LET evs == EventsOf(groups[g].entries) IN
       /\ heap' = [r \in 1..HeapSize |->
                     IF \E e \in evs : listeners[e] = r THEN <<>> ELSE heap[r]]
       /\ subs' = [s \in 1..Len(subs) |->
                     IF subs[s].ev \in evs
                     THEN MarkOff(subs[s].ev, NoPromise, TRUE, Registry(subs[s].ev))[s]
                     ELSE subs[s]]
       /\ emits' = [k \in 1..Len(emits) |->
                      IF emits[k].ev \in evs THEN MarkDirty(emits[k].ev)[k] ELSE emits[k]]
       /\ cleared' = [e \in DOMAIN cleared |-> IF e \in evs THEN TRUE ELSE cleared[e]]
  /\ lastOp' = [op |-> "eventsOffAll", ev |-> 0, arg |-> NoPromise, ret |-> g,
                pre |-> <<>>, depth |-> Depth]
  /\ offs' = offs + 1
  /\ UNCHANGED <<groups, classOf, member, emitters, listeners, stack, resolved, thenRan>>

\* two events and a group made of an object literal
InitGroup ==
  /\ classOf = [e \in AllEvents |-> "SealedEvent"]
  /\ member = [e \in AllEvents |-> 0]
  /\ emitters = [em \in 1..Cardinality(AllEvents) |-> CreateEmitterWithBaseEvent(em, em)]
  /\ \E x \in Literals : InitRestWith(AllEvents, <<[Plain(x) EXCEPT !.frozen = TRUE]>>)

\* user code registers and removes one callback, which returns normally
NextGroup ==
  \/ \E e \in AllEvents : On(e, Fn(1))
  \/ \E e \in AllEvents : Off(e, Fn(1))
  \/ \E e \in AllEvents : EmitStart(e, 1)
  \/ EmitInvoke
  \/ CallbackReturn
  \/ EmitFinish
  \/ \E g \in 1..MaxGroups : EventsOffAll(g)

SpecGroup == InitGroup /\ [][NextGroup]_vars

TypeOK ==
  /\ \A e \in DOMAIN listeners : listeners[e] \in 1..HeapSize
  /\ Len(stack) <= MaxDepth
  /\ Len(subs) <= MaxSubs
  /\ Len(emits) <= MaxEmits

\* ==== properties ==========================================================
EmitIds == 1..Len(emits)
SubIds == 1..Len(subs)
Registered(s) == s \in IdSet(Registry(subs[s].ev))
IsPromiseSub(s) == subs[s].promise # NoPromise

\* C1: an emit during which no callback has called on/once/off/offAll invokes
\* the subscriptions that were registered when it started, in registration
\* order, each at most once and each with the emitted value; when it returns,
\* it has invoked every one of them.
C1_InOrderOnceEach ==
  \A k \in EmitIds :
    ~emits[k].dirty =>
      /\ Len(emits[k].calls) <= Len(emits[k].start)
      /\ \A i \in 1..Len(emits[k].calls) :
           emits[k].calls[i] = <<emits[k].start[i], emits[k].value>>
      /\ emits[k].status = "returned" => Len(emits[k].calls) = Len(emits[k].start)

\* C1 witness: an emit over two on() registrations has returned undisturbed.
C1_Witness ==
  \E k \in EmitIds :
    /\ emits[k].status = "returned"
    /\ ~emits[k].dirty
    /\ Len(emits[k].start) = 2
    /\ \A i \in 1..2 : ~subs[emits[k].start[i]].once

\* C2: emit returns true exactly when the registry was non-empty as the call
\* started, whatever the callbacks did during the dispatch.
C2_ReturnsHadListeners ==
  \A k \in EmitIds :
    emits[k].status = "returned" => (emits[k].ret <=> Len(emits[k].start) > 0)

\* C2 witness: an emit returned true although its callbacks emptied the registry.
C2_Witness ==
  \E k \in EmitIds :
    /\ emits[k].status = "returned"
    /\ emits[k].ret
    /\ emits[k].dirty
    /\ stack = <<>>
    /\ Registry(emits[k].ev) = <<>>

NoReentrantEmit == \A k \in EmitIds : emits[k].depth = 0
NoThrow == \A k \in EmitIds : emits[k].status # "threw"

\* C3 (as claimed): without re-entrant dispatch and without throwing callbacks,
\* a once subscription that no off/offAll call named is invoked by the first
\* emit made after its registration, and is not registered when any later emit
\* starts or once that first emit has returned.
C3_OnceFiresOnFirstEmit ==
  (NoReentrantEmit /\ NoThrow) =>
    \A s \in SubIds :
      (subs[s].once /\ subs[s].offCalls = 0) =>
        LET first == subs[s].regEmit + 1 IN
          /\ (first <= Len(emits) /\ emits[first].status = "returned") =>
               /\ first \in {subs[s].by[i] : i \in 1..Len(subs[s].by)}
               /\ stack = <<>> => ~Registered(s)
          /\ \A k \in EmitIds : k > first => \A i \in 1..Len(emits[k].start) :
               emits[k].start[i] # s

\* C4 (as claimed): a once subscription is invoked at most once.
C4_OnceAtMostOnce ==
  \A s \in SubIds : subs[s].once => Len(subs[s].by) <= 1

\* C5 (as claimed): a once() promise is resolved only by the first emit call
\* made after once() returned, with the value of that call.
C5_PromiseGetsFirstEmit ==
  \A s \in SubIds :
    (IsPromiseSub(s) /\ s \in DOMAIN resolved) =>
      /\ resolved[s].by = subs[s].regEmit + 1
      /\ resolved[s].value = emits[subs[s].regEmit + 1].value

\* C6: a subscription that off (or offAll) removed while no dispatch was in
\* progress is not registered afterwards, no emit started after the removal
\* has it in its snapshot, and no emit invokes it after the removal.
C6_OffRemoves ==
  \A s \in SubIds :
    subs[s].offTop =>
      /\ ~Registered(s)
      /\ \A i \in 1..Len(subs[s].by) : subs[s].by[i] <= subs[s].offAt
      /\ \A k \in EmitIds : k > subs[s].offAt =>
           \A i \in 1..Len(emits[k].start) : emits[k].start[i] # s

\* C6 witness: the only subscription, made with on(cb), was removed by off(cb)
\* outside any dispatch, and the next emit returned false.
C6_Witness ==
  \E s \in SubIds :
    /\ ~subs[s].once
    /\ subs[s].offTop
    /\ offs = 1
    /\ Len(subs) = 1
    /\ Len(emits) > subs[s].offAt
    /\ emits[subs[s].offAt + 1].status = "returned"
    /\ ~emits[subs[s].offAt + 1].ret

\* C7 (as claimed): a subscription removed from inside a callback is not
\* registered once every dispatch has returned.
C7_RemovalInCallbackPersists ==
  stack = <<>> => \A s \in SubIds : subs[s].offCb => ~Registered(s)

\* reference equality of off's argument with a Listener's callback or promise
Matches(x, l) == l.callback = x \/ l.promise = x

\* C8: off(x) returns true exactly when some registered subscription has x as
\* its callback or as its promise; when none has, the registry is as before.
C8_OffReportsRemoval ==
  lastOp.op = "off" =>
    LET matched == \E i \in 1..Len(lastOp.pre) : Matches(lastOp.arg, lastOp.pre[i]) IN
      /\ lastOp.ret = 1 <=> matched
      /\ ~matched => Registry(lastOp.ev) = lastOp.pre

\* C8 witness: off(x) has just returned false on a registry that is not empty.
C8_Witness ==
  /\ lastOp.op = "off"
  /\ lastOp.ret = 0
  /\ Len(lastOp.pre) = 2
  /\ Registry(lastOp.ev) = lastOp.pre

\* p was returned by once() outside any dispatch and no emit has started since
Undispatched(s) == subs[s].regDepth = 0 /\ subs[s].regEmit = Len(emits)

\* p was named by a removal call outside any dispatch before any emit started
Cancelled(s) ==
  /\ IsPromiseSub(s)
  /\ subs[s].regDepth = 0
  /\ subs[s].offTop
  /\ subs[s].offAt = subs[s].regEmit

\* C9: off(p), as the first removal call for a once() promise p and before any
\* dispatch, returns true; from then on p is never resolved, its resolver is
\* never invoked and its continuation never runs.
C9_OffCancelsPromise ==
  /\ \A s \in SubIds :
       ( /\ lastOp.op = "off"
         /\ lastOp.arg = PromiseRef(s)
         /\ lastOp.depth = 0
         /\ IsPromiseSub(s)
         /\ Undispatched(s)
         /\ subs[s].offCalls = 1 ) => lastOp.ret = 1
  /\ \A s \in SubIds :
       Cancelled(s) =>
         /\ s \notin DOMAIN resolved
         /\ s \notin thenRan
         /\ subs[s].by = <<>>
         /\ ~Registered(s)

\* C9 witness: the only subscription was a once() promise, off(p) cancelled it
\* and the next emit returned false.
C9_Witness ==
  \E s \in SubIds :
    /\ Cancelled(s)
    /\ Len(subs) = 1
    /\ offs = 1
    /\ Len(emits) > subs[s].regEmit
    /\ emits[subs[s].regEmit + 1].status = "returned"
    /\ ~emits[subs[s].regEmit + 1].ret

\* C10 (as claimed): offAll() returns the number of registered subscriptions,
\* and an emit that starts after offAll() with no on/once in between returns
\* false.
C10_OffAllEmpties ==
  /\ lastOp.op = "offAll" => lastOp.ret = Len(lastOp.pre)
  /\ \A k \in EmitIds :
       (emits[k].afterClear /\ emits[k].status = "returned") => ~emits[k].ret

CalledIds(k) == [i \in 1..Len(emits[k].calls) |-> emits[k].calls[i][1]]
WithCallback(ids, c) == {i \in 1..Len(ids) : subs[ids[i]].cb = c}
Increasing(ids) == \A i, j \in 1..Len(ids) : i < j => ids[i] < ids[j]

\* C11: every registration is a subscription of its own, so an undisturbed
\* emit invokes a callback as many times as it is registered; off(x) leaves
\* exactly the subscriptions that do not have x as callback or promise, in
\* their order, whether they were made by on or by once.
C11_IndependentEntries ==
  /\ \A k \in EmitIds : \A c \in UserCallbacks :
       (emits[k].status = "returned" /\ ~emits[k].dirty) =>
         Cardinality(WithCallback(CalledIds(k), c))
           = Cardinality(WithCallback(emits[k].start, c))
  /\ lastOp.op = "off" =>
       LET Other(l) == ~Matches(lastOp.arg, l)
       IN Registry(lastOp.ev) = SelectSeq(lastOp.pre, Other)

\* C11 witness: off(cb) has just removed two subscriptions of the same
\* callback, one made by on and one by once.
C11_Witness ==
  /\ lastOp.op = "off"
  /\ Len(lastOp.pre) = 2
  /\ lastOp.pre[1].callback = lastOp.pre[2].callback
  /\ lastOp.pre[1].once # lastOp.pre[2].once
  /\ Registry(lastOp.ev) = <<>>

\* C12 (as claimed): a subscription is invoked only by emit calls that started
\* after it was registered.
C12_AddedDuringDispatchWaits ==
  \A s \in SubIds : \A i \in 1..Len(subs[s].by) : subs[s].by[i] > subs[s].regEmit

\* C13 (as claimed): with no callback throwing, an emit that returns has
\* invoked every subscription that was registered when it started.
C13_StableSnapshot ==
  NoThrow =>
    \A k \in EmitIds :
      emits[k].status = "returned" =>
        \A i \in 1..Len(emits[k].start) :
          \E j \in 1..Len(emits[k].calls) : emits[k].calls[j][1] = emits[k].start[i]

\* C14: when a callback throws, the emit call is over at once: it is no
\* longer running and it invokes no subscription after the one that threw.
C14_ThrowAborts ==
  \A k \in EmitIds :
    emits[k].status = "threw" =>
      /\ \A i \in 1..Len(stack) : stack[i].eid # k
      /\ Len(emits[k].calls) = emits[k].thrownAt
      /\ emits[k].thrownAt >= 1

\* C14 witness: an emit over two subscriptions was aborted by the first one.
C14_Witness ==
  \E k \in EmitIds :
    /\ emits[k].status = "threw"
    /\ Len(emits[k].start) = 2
    /\ Len(emits[k].calls) = 1
    /\ Len(Registry(emits[k].ev)) = 2
    /\ Len(emits) > k

\* C15 (as claimed): right after a callback has thrown, the once subscriptions
\* the aborted emit had invoked before are not registered, and the
\* subscriptions it had not reached are.
C15_StateAfterThrow ==
  lastOp.op = "throw" =>
    LET k == lastOp.ret IN
      /\ \A i \in 1..(Len(emits[k].calls) - 1) :
           subs[emits[k].calls[i][1]].once => ~Registered(emits[k].calls[i][1])
      /\ ~emits[k].dirty =>
           \A i \in (Len(emits[k].calls) + 1)..Len(emits[k].start) :
             Registered(emits[k].start[i])

ListenerOf(s) == [id |-> s, once |-> subs[s].once, callback |-> subs[s].cb,
                  promise |-> subs[s].promise]

\* C17: when an emit during which no callback called on/once/off/offAll
\* returns, the registry is the one the emit started with, without its once
\* subscriptions and otherwise unchanged.
C17_OnlyOnceRemoved ==
  (lastOp.op = "emit" /\ ~emits[lastOp.ret].dirty) =>
    LET Stays(s) == ~subs[s].once
        kept == SelectSeq(emits[lastOp.ret].start, Stays)
    IN Registry(lastOp.ev) = [i \in 1..Len(kept) |-> ListenerOf(kept[i])]

\* C17 witness: an undisturbed emit over a once and an on subscription has
\* just returned and left the on subscription.
C17_Witness ==
  /\ lastOp.op = "emit"
  /\ ~emits[lastOp.ret].dirty
  /\ Len(emits[lastOp.ret].start) = 2
  /\ subs[emits[lastOp.ret].start[1]].once
  /\ Len(Registry(lastOp.ev)) = 1

\* C18 (as claimed): once no dispatch is running, every on() subscription
\* that no later off/offAll call named is registered.
C18_OnAlwaysRegisters ==
  stack = <<>> =>
    \A s \in SubIds : (~subs[s].once /\ subs[s].offCalls = 0) => Registered(s)

\* ---- sealed and self-dispatching events ---------------------------------
\* C19: an event of class SealedEvent never has an `emit` property, and every
\* dispatch to its subscribers was started by the emitter its factory returned.
C19_SealedHasNoEmit ==
  \A e \in Events :
    classOf[e] = "SealedEvent" =>
      /\ member[e] = 0
      /\ \A k \in EmitIds :
           emits[k].ev = e =>
             /\ emits[k].em = FactoryEmitter(e)
             /\ emitters[emits[k].em].event = e

\* C19 witness: a dispatch to a sealed event has invoked a subscription and
\* returned.
C19_Witness ==
  \E k \in EmitIds :
    /\ classOf[emits[k].ev] = "SealedEvent"
    /\ emits[k].status = "returned"
    /\ Len(emits[k].calls) >= 1

\* what user code can tell about a subscription: once or not, and its callback
SubShape(s) == <<subs[s].once, IF IsPromiseSub(s) THEN <<"resolver", 0>> ELSE subs[s].cb>>
Shape(ids) == [i \in 1..Len(ids) |-> SubShape(ids[i])]
Given(k) == [i \in 1..Len(emits[k].calls) |-> emits[k].calls[i][2]]

\* emits j and k are calls of the two emitters of one Event with the same
\* value, over registries with the same content, whose callbacks made the same
\* calls at the same points of the loop (and no emit call); both returned
SameCall(j, k) ==
  /\ emits[j].ev = emits[k].ev
  /\ emits[j].em = member[emits[j].ev]
  /\ emits[k].em = FactoryEmitter(emits[k].ev)
  /\ emits[j].status = "returned" /\ emits[k].status = "returned"
  /\ emits[j].value = emits[k].value
  /\ Shape(emits[j].start) = Shape(emits[k].start)
  /\ emits[j].log = emits[k].log
  /\ \A i \in 1..Len(emits[j].log) : emits[j].log[i][2] # "emit"

\* C20: event.emit(x) and emitter(x) of a self-dispatching Event invoke the
\* same subscriptions in the same order with x, return the same boolean and
\* leave the same registry, whenever they start from the same registry content
\* and their callbacks behave the same.
C20_SameDispatch ==
  \A j, k \in EmitIds :
    SameCall(j, k) =>
      /\ Shape(CalledIds(j)) = Shape(CalledIds(k))
      /\ Given(j) = Given(k)
      /\ emits[j].ret = emits[k].ret
      /\ Shape(emits[j].post) = Shape(emits[k].post)

\* C20 witness: event.emit and the emitter have both dispatched over a
\* registry holding a subscription, with a callback calling off during each.
C20_Witness ==
  \E j, k \in EmitIds :
    /\ SameCall(j, k)
    /\ Len(emits[j].calls) >= 1
    /\ \E i \in 1..Len(emits[j].log) : emits[j].log[i][2] = "off"

\* ---- PublicEvent and the v2 Event ---------------------------------------
\* C21 (as claimed): a dispatch by the emit of the v2 class and a dispatch by
\* the closure of createEmitter that start from the same registry content,
\* carry the same value and whose callbacks make the same calls invoke the same
\* callbacks in the same order with the same values, return the same boolean
\* and leave equal registries.
C21_DropInReplacement ==
  \A j, k \in EmitIds :
    (/\ SameCall(j, k)
     /\ emitters[emits[j].em].code = "method"
     /\ emitters[emits[k].em].code = "closure") =>
      /\ Shape(CalledIds(j)) = Shape(CalledIds(k))
      /\ Given(j) = Given(k)
      /\ emits[j].ret = emits[k].ret
      /\ Shape(emits[j].post) = Shape(emits[k].post)

\* ---- several events -----------------------------------------------------
\* the subscriptions an emit invoked belong to the event of its emitter
OwnCallsOnly ==
  \A k \in EmitIds :
    /\ emits[k].ev = emitters[emits[k].em].event
    /\ \A i \in 1..Len(emits[k].calls) : subs[emits[k].calls[i][1]].ev = emits[k].ev

\* a step changes the registry of an event only when it is the return of a
\* call made on that event
OwnRegistryOnly ==
  \A e \in DOMAIN listeners :
    Registry(e)' # Registry(e) => (lastOp'.ev = e /\ lastOp'.op # "none")

\* C22: on, once, off, offAll and emit on one event leave the registry of
\* every other event as it was and invoke subscriptions of that event only,
\* and an emitter dispatches to the event it was created with.
C22_OwnRegistry == [](OwnCallsOnly) /\ [][OwnRegistryOnly]_vars

\* C22 witness: an emit on one event has invoked its subscription and returned
\* while the other event holds a subscription, which was not invoked.
C22_Witness ==
  /\ lastOp.op = "emit"
  /\ Len(emits[lastOp.ret].calls) = 1
  /\ \E e \in DOMAIN listeners :
       /\ e # lastOp.ev
       /\ Len(Registry(e)) = 1
       /\ subs[Registry(e)[1].id].by = <<>>

\* C23: the `event` property of every emitter is the event whose registry its
\* dispatches read, its `emit` property is the emitter itself, and no step
\* changes either.
C23_EmitterLinks ==
  /\ [](\A em \in DOMAIN emitters :
          /\ emitters[em].emit = em
          /\ \A k \in EmitIds :
               emits[k].em = em =>
                 \A i \in 1..Len(emits[k].calls) :
                   subs[emits[k].calls[i][1]].ev = emitters[em].event)
  /\ [][emitters' = emitters]_vars

\* C23 witness: each of two emitters has dispatched to a subscription.
C23_Witness ==
  /\ Len(emits) = 2
  /\ emits[1].em # emits[2].em
  /\ \A k \in EmitIds : emits[k].status = "returned" /\ Len(emits[k].calls) >= 1

\* ---- promises of once() -------------------------------------------------
\* C24 (as claimed): off(p) called outside any dispatch for a promise p that a
\* dispatch has resolved returns false and leaves the registry as it was.
C24_OffAfterResolveIsNoOp ==
  (/\ lastOp.op = "off"
   /\ lastOp.depth = 0
   /\ lastOp.arg[1] = "promise"
   /\ lastOp.arg[2] \in DOMAIN resolved) =>
    /\ lastOp.ret = 0
    /\ Ids(Registry(lastOp.ev)) = Ids(lastOp.pre)

\* C25 (as claimed): a promise of once() is resolved only by an emit call on
\* its event made after the once() call, with the value of that emit; while
\* it is pending and no off/offAll call has named it, its subscription is in
\* the registry.
C25_ResolvedByLaterDispatchOnly ==
  \A s \in SubIds :
    IsPromiseSub(s) =>
      /\ s \in DOMAIN resolved =>
           /\ emits[resolved[s].by].ev = subs[s].ev
           /\ resolved[s].by > subs[s].regEmit
           /\ resolved[s].value = emits[resolved[s].by].value
      /\ (s \notin DOMAIN resolved /\ subs[s].offCalls = 0) => Registered(s)

\* ---- groups -------------------------------------------------------------
\* C26: the result of events.concat(A, B) is a new frozen object that has the
\* names of A and of B, with B's event for every name of B and A's event for
\* the other names, and stays so; the call leaves every other object as it is.
C26_ConcatRightBiased ==
  /\ [](\A g \in DOMAIN groups :
          groups[g].of # <<>> =>
            LET A == groups[g].of[1]
                B == groups[g].of[2]
                R == groups[g].entries
            IN /\ groups[g].frozen
               /\ Len(R) = Cardinality(NamesOf(R))
               /\ NamesOf(R) = NamesOf(A) \cup NamesOf(B)
               /\ \A n \in NamesOf(B) : Get(R, n) = Get(B, n)
               /\ \A n \in NamesOf(A) \ NamesOf(B) : Get(R, n) = Get(A, n))
  /\ [][Len(groups') > Len(groups) =>
          \A g \in DOMAIN groups : groups'[g] = groups[g]]_vars

\* C26 witness: a concat of two groups that map a common name to different
\* events, the first having a name of its own.
C26_Witness ==
  \E g \in DOMAIN groups :
    /\ groups[g].of # <<>>
    /\ \E n \in NamesOf(groups[g].of[1]) \cap NamesOf(groups[g].of[2]) :
         Get(groups[g].of[1], n) # Get(groups[g].of[2], n)
    /\ NamesOf(groups[g].of[1]) \ NamesOf(groups[g].of[2]) # {}

\* C27 (as claimed): an emit that starts after events.offAll(group) on an
\* event of the group, with no on in between, returns false and invokes no
\* subscription.
C27_GroupOffAllEmpties ==
  \A k \in EmitIds :
    (emits[k].afterClear /\ emits[k].status = "returned") =>
      (~emits[k].ret /\ emits[k].calls = <<>>)

\* ---- what a dispatch passes, how long it runs, what it leaves -------------
\* C28: every callback and every promise resolver an emit invokes gets the
\* value the emitter was called with, undefined when it was called with no
\* argument, and an emit over a non-empty registry returns true.
C28_ForwardsVerbatim ==
  /\ \A k \in EmitIds :
       /\ \A i \in 1..Len(emits[k].calls) : emits[k].calls[i][2] = emits[k].value
       /\ (emits[k].status = "returned" /\ emits[k].start # <<>>) => emits[k].ret
  /\ \A p \in DOMAIN resolved : resolved[p].value = emits[resolved[p].by].value

\* C28 witness: an emit called with no argument has invoked a callback and
\* resolved a promise with undefined, and returned true.
C28_Witness ==
  \E k \in EmitIds :
    /\ emits[k].value = Undefined
    /\ emits[k].status = "returned" /\ emits[k].ret
    /\ \E i \in 1..Len(emits[k].calls) : ~IsPromiseSub(emits[k].calls[i][1])
    /\ \E p \in DOMAIN resolved : resolved[p].by = k /\ resolved[p].value = Undefined

\* C29 (as claimed): when no callback calls emit, an emit invokes at most as
\* many callbacks as there were subscriptions when it started.
C29_BoundedByStart ==
  NoReentrantEmit =>
    \A k \in EmitIds : Len(emits[k].calls) <= Len(emits[k].start)

\* C30: when an emit call has just returned, no Listener in the registry of
\* its event is marked once.
C30_NoOnceAfterEmit ==
  lastOp.op = "emit" =>
    \A i \in 1..Len(Registry(lastOp.ev)) : ~Registry(lastOp.ev)[i].once

\* C30 witness: an emit has just returned whose array held, at the end, a once
\* subscription it started with and another that a callback made during it.
C30_Witness ==
  /\ lastOp.op = "emit"
  /\ \E s, t \in IdSet(lastOp.pre) :
       /\ subs[s].once /\ subs[t].once
       /\ \E i \in 1..Len(emits[lastOp.ret].start) : emits[lastOp.ret].start[i] = s
       /\ subs[t].regEmit = lastOp.ret /\ subs[t].regDepth = lastOp.depth + 1

\* ---- calls made by callbacks during a dispatch ---------------------------
\* C31 (as claimed): a once subscription made by a callback during a dispatch
\* that no emit has invoked and no off/offAll call has named is in the
\* registry.
C31_OnceInCallbackKept ==
  \A s \in SubIds :
    (/\ subs[s].once
     /\ subs[s].regDepth > 0
     /\ subs[s].by = <<>>
     /\ subs[s].offCalls = 0) => Registered(s)

\* the number of times emit k invoked subscription s
TimesBy(s, k) == Cardinality({i \in 1..Len(subs[s].by) : subs[s].by[i] = k})

\* emit k was called by a callback of emit j
Inside(k, j) ==
  /\ j < k
  /\ emits[k].depth > emits[j].depth
  /\ \A m \in j + 1..k - 1 : emits[m].depth > emits[j].depth

\* C32: a dispatch started by a callback of another has returned or thrown
\* before the outer one invokes its next callback or returns, and an emit that
\* returns has invoked exactly once every on subscription that was registered
\* when it started and that no off/offAll call has named, whether the emit is
\* the outer or the inner one.
C32_NestedDispatch ==
  /\ [](\A k \in EmitIds :
          /\ emits[k].status = "running" =>
               \E i \in 1..Len(stack) : stack[i].eid = k /\ i = emits[k].depth + 1
          /\ emits[k].status = "returned" =>
               \A i \in 1..Len(emits[k].start) :
                 LET s == emits[k].start[i] IN
                   (~subs[s].once /\ subs[s].offCalls = 0) => TimesBy(s, k) = 1)
  /\ [][\A j \in EmitIds :
          (emits'[j].calls # emits[j].calls \/ emits'[j].status # emits[j].status) =>
            \A k \in EmitIds : Inside(k, j) => emits[k].status # "running"]_vars

\* C32 witness: a callback of the outer emit called emit with another value;
\* both emits returned and each invoked the on subscription once.
C32_Witness ==
  /\ Len(emits) = 2
  /\ Inside(2, 1)
  /\ emits[1].value # emits[2].value
  /\ emits[1].status = "returned" /\ emits[2].status = "returned"
  /\ \E s \in SubIds :
       /\ ~subs[s].once /\ subs[s].offCalls = 0
       /\ TimesBy(s, 1) = 1 /\ TimesBy(s, 2) = 1

\* ---- who runs callbacks ---------------------------------------------------
\* C33: a step in which a subscription is invoked or a promise is resolved is
\* a turn of the loop of a running emit on the event of that subscription; the
\* return of on, once, off or offAll is never such a step.
C33_OnlyEmitInvokes ==
  [][LET invoked == {s \in SubIds : subs'[s].by # subs[s].by}
         settled == DOMAIN resolved' \ DOMAIN resolved
     IN (invoked # {} \/ settled # {} \/ \E k \in EmitIds : emits'[k].calls # emits[k].calls) =>
          /\ stack # <<>>
          /\ Top.pc = "loop"
          /\ lastOp'.op = "none"
          /\ Len(stack') = Len(stack)
          /\ stack'[Len(stack)].idx = Top.idx + 1
          /\ \A s \in invoked \cup settled : subs[s].ev = Top.ev
          /\ \A k \in EmitIds : emits'[k].calls # emits[k].calls => k = Top.eid]_vars

\* C33 witness: after on, once() and off calls, an emit has invoked a callback
\* and resolved a promise.
C33_Witness ==
  /\ offs > 0
  /\ resolved # <<>>
  /\ \E s \in SubIds : ~IsPromiseSub(s) /\ subs[s].by # <<>>

\* ---- the promise of once() ------------------------------------------------
\* the Listener objects of all arrays alive
Alive == UNION {{heap[r][i] : i \in 1..Len(heap[r])} : r \in 1..HeapSize}

\* C34: in every array, the Listener that once() made for promise p, and no
\* other, carries p; a Listener made with a callback carries no promise; and
\* off(p) has removed from the registry the Listener made for p when it was
\* there, and nothing else.
C34_PromiseOnOwnListener ==
  /\ \A l \in Alive :
       /\ l.promise = subs[l.id].promise
       /\ l.callback = subs[l.id].cb
       /\ IsPromiseSub(l.id) <=> l.callback = Resolve(l.id)
       /\ IsPromiseSub(l.id) => l.promise = PromiseRef(l.id)
  /\ (lastOp.op = "oncePromise") =>
       /\ lastOp.arg = PromiseRef(Len(subs))
       /\ Ids(Registry(lastOp.ev)) = Append(Ids(lastOp.pre), Len(subs))
  /\ (lastOp.op = "off" /\ lastOp.arg[1] = "promise") =>
       LET Other(id) == id # lastOp.arg[2] IN
         /\ Ids(Registry(lastOp.ev)) = SelectSeq(Ids(lastOp.pre), Other)
         /\ lastOp.ret = (IF lastOp.arg[2] \in IdSet(lastOp.pre) THEN 1 ELSE 0)

\* C34 witness: a callback called once() during a dispatch and then off(p),
\* which removed the subscription of p and left the other one.
C34_Witness ==
  /\ lastOp.op = "off"
  /\ lastOp.arg[1] = "promise"
  /\ lastOp.depth > 0
  /\ lastOp.ret = 1
  /\ subs[lastOp.arg[2]].regDepth > 0
  /\ Len(Registry(lastOp.ev)) = 1
====
